---- MODULE Spec2Model ----
(***************************************************************************)
(* A model of the two components of unlock-your-drive:                     *)
(*   DailyTaskCard.tsx  - the daily checklist and handleSubTaskCompletion  *)
(*   TaskManager.tsx    - the mission list: submit, edit, delete, select   *)
(*                        and the time-remaining label                    *)
(* Strings that the code splits, trims or parses are sequences of          *)
(* one-character strings; JavaScript's 0-based indices are kept in the     *)
(* handlers' arguments and shifted by one where a TLA+ sequence is read.   *)
(***************************************************************************)
EXTENDS Integers, Sequences, FiniteSets, TLC

VARIABLES
    dailyTasks,         \* roadmap.dailyTasks, the list the owner holds
    call,               \* <<>> or <<day, subTaskIndex>> of the last handleSubTaskCompletion
    wasPreviouslyComplete, \* the handler's local of that name, for the last targeted task
    updatedTasks,       \* first argument of the last onRoadmapUpdate
    justCompletedTask,  \* second argument of the last onRoadmapUpdate: <<>> is null, <<t>> a task
    tasks,              \* TaskManager's tasks prop, the mission list the owner holds
    selectedTaskId,     \* the selectedTaskId prop: <<>> is null, <<id>> an id
    isAddDialogOpen,    \* useState of TaskManager
    editingTask,        \* useState: <<>> is null, <<t>> the mission being edited
    deadlineType,       \* useState: "date" or "days"
    numberOfDays,       \* useState: the text of the day-count input
    formData,           \* useState: [title, targetDate, category, priority]
    now,                \* the wall clock, in ms since the epoch
    event,              \* the last handler of TaskManager that ran, with its argument
    callbacks,          \* the owner callbacks that handler invoked, in order
    clockMs,            \* the wall clock getTimeLeft reads, in ms from 2024-01-10T00:00:00
    timeCall            \* <<>> or <<targetDate, now, result>> of the last getTimeLeft

cardVars == <<dailyTasks, call, wasPreviouslyComplete, updatedTasks, justCompletedTask>>

mgrVars == <<tasks, selectedTaskId, isAddDialogOpen, editingTask, deadlineType,
             numberOfDays, formData, now, event, callbacks>>

timeVars == <<clockMs, timeCall>>

vars == <<cardVars, mgrVars, timeVars>>

-----------------------------------------------------------------------------
(* Bounds of the model *)

\* total number of characters of the task strings of a roadmap
MaxTotalLen == 2

\* characters a task string is made of
Alphabet == {"a", " ", ";"}

\* the days of the modelled roadmap (1-based, unique)
Days == {1, 2}

\* the day arguments of a call: the roadmap's days and one that matches no task
DayArgs == Days \cup {3}

\* number of missions the list may hold
MaxTasks == 2

\* last instant of the modelled clock
MaxClock == 2

\* target dates and clock readings lie within this many days of 2024-01-10T00:00:00
MaxDays == 3

-----------------------------------------------------------------------------
(* String helpers of JavaScript used by DailyTaskCard.tsx *)

\* String.prototype.split(';'): the segments between separators, empty ones kept
RECURSIVE split(_)
split(s) ==
    IF \A i \in 1..Len(s) : s[i] # ";"
    THEN <<s>>
    ELSE LET p == CHOOSE i \in 1..Len(s) : s[i] = ";" /\ \A j \in 1..(i-1) : s[j] # ";"
         IN  <<SubSeq(s, 1, p - 1)>> \o split(SubSeq(s, p + 1, Len(s)))

\* String.prototype.trim(): leading and trailing white space removed
RECURSIVE trim(_)
trim(s) ==
    IF s = <<>> THEN s
    ELSE IF Head(s) = " " THEN trim(Tail(s))
    ELSE IF s[Len(s)] = " " THEN trim(SubSeq(s, 1, Len(s) - 1))
    ELSE s

\* task.subTasks?.[i]?.completed ?? false   (i is the 0-based index)
subCompleted(task, i) ==
    IF i + 1 \in DOMAIN task.subTasks THEN task.subTasks[i + 1].completed ELSE FALSE

\* task.subTasks?.[i]?.studyLogs ?? []
subStudyLogs(task, i) ==
    IF i + 1 \in DOMAIN task.subTasks THEN task.subTasks[i + 1].studyLogs ELSE <<>>

-----------------------------------------------------------------------------
(* handleSubTaskCompletion *)

\* a rebuild that forgets the completion state of the positions it does not set
rebuildSubTasksForgetting(task, subTaskIndex, completed) ==
    LET segs == split(task.task)
    IN  [i \in 1..Len(segs) |->
            [text      |-> trim(segs[i]),
             completed |-> i - 1 = subTaskIndex /\ completed,
             studyLogs |-> subStudyLogs(task, i - 1)]]

\* the sub-task sequence rebuilt from the unfiltered split of task.task
rebuildSubTasks(task, subTaskIndex, completed) ==
    LET segs == split(task.task)
    IN  [i \in 1..Len(segs) |->
            [text      |-> trim(segs[i]),
             completed |-> IF i - 1 = subTaskIndex THEN completed
                                                   ELSE subCompleted(task, i - 1),
             studyLogs |-> subStudyLogs(task, i - 1)]]

\* subTasks.some(st => st.completed) in place of every
someCompleted(subTasks) == \E i \in 1..Len(subTasks) : subTasks[i].completed

\* subTasks.every(st => st.completed)
allCompleted(subTasks) == \A i \in 1..Len(subTasks) : subTasks[i].completed

\* the record the map callback returns for a task whose day matches
completeTask(task, subTaskIndex, completed) ==
    LET subTasks == rebuildSubTasks(task, subTaskIndex, completed)
    IN  [task EXCEPT !.subTasks = subTasks, !.completed = allCompleted(subTasks)]

\* the signal condition without the test of wasPreviouslyComplete
isJustCompletedUnguarded(task, newTask) == newTask.completed

\* the condition under which the callback assigns justCompletedTask
isJustCompleted(task, newTask) == newTask.completed /\ ~task.completed

\* roadmap.dailyTasks.map(...)
mapTasks(list, day, subTaskIndex, completed) ==
    [k \in 1..Len(list) |->
        IF list[k].day = day THEN completeTask(list[k], subTaskIndex, completed)
                              ELSE list[k]]

\* the value of justCompletedTask when the map is over: the last assignment wins
signalOf(list, day, subTaskIndex, completed) ==
    LET hits == {k \in 1..Len(list) :
                    /\ list[k].day = day
                    /\ isJustCompleted(list[k], completeTask(list[k], subTaskIndex, completed))}
    IN  IF hits = {} THEN <<>>
        ELSE LET k == CHOOSE h \in hits : \A g \in hits : g <= h
             IN  <<completeTask(list[k], subTaskIndex, completed)>>

\* wasPreviouslyComplete of the (last) task the call targets; FALSE when none matches
previouslyComplete(list, day) ==
    \E k \in 1..Len(list) :
        /\ list[k].day = day
        /\ \A g \in (k+1)..Len(list) : list[g].day # day
        /\ list[k].completed

\* The handler, with the owner installing the list handed to onRoadmapUpdate
handleSubTaskCompletion(day, subTaskIndex, completed) ==
    /\ call' = <<day, subTaskIndex>>
    /\ wasPreviouslyComplete' = previouslyComplete(dailyTasks, day)
    /\ updatedTasks' = mapTasks(dailyTasks, day, subTaskIndex, completed)
    /\ justCompletedTask' = signalOf(dailyTasks, day, subTaskIndex, completed)
    /\ dailyTasks' = updatedTasks'
    /\ UNCHANGED <<mgrVars, timeVars>>

-----------------------------------------------------------------------------
(* The rendered checklist *)

\* selectedDayTask?.task.split(';').map(s => s.trim()).filter(Boolean) || []
displayedSubTasks(task) ==
    LET segs == split(task.task)
    IN  SelectSeq([i \in 1..Len(segs) |-> trim(segs[i])], LAMBDA x : x # <<>>)

\* checked={subTaskData?.completed ?? false} of the checkbox at 0-based index
checkboxChecked(task, index) == subCompleted(task, index)

\* A click on the checkbox `index` of the card shown for selectedDay
CheckboxClick ==
    \E k \in 1..Len(dailyTasks) :
        \E index \in 0..(Len(displayedSubTasks(dailyTasks[k])) - 1) :
            handleSubTaskCompletion(dailyTasks[k].day, index,
                                    ~checkboxChecked(dailyTasks[k], index))

\* A call of the handler with any arguments
HandlerCall ==
    \E day \in DayArgs, subTaskIndex \in 0..MaxTotalLen, completed \in BOOLEAN :
        handleSubTaskCompletion(day, subTaskIndex, completed)

-----------------------------------------------------------------------------
(* Initial roadmaps *)

RECURSIVE StringsOfLen(_)
StringsOfLen(n) ==
    IF n = 0 THEN {<<>>}
    ELSE {<<c>> \o s : c \in Alphabet, s \in StringsOfLen(n - 1)}

Strings == UNION {StringsOfLen(n) : n \in 0..MaxTotalLen}

RECURSIVE SumLen(_)
SumLen(ss) == IF ss = <<>> THEN 0 ELSE Len(Head(ss)) + SumLen(Tail(ss))

\* a task as the roadmap generator stores it: no subTasks yet, not completed
freshTask(day, str) ==
    [day |-> day, task |-> str, completed |-> FALSE, subTasks |-> <<>>]

\* a task an earlier session already rebuilt and logged study time on: sub-tasks
\* aligned with the split, none completed, a study log per sub-task
storedTask(day, str) ==
    LET n == Len(split(str))
    IN  completeTask([freshTask(day, str) EXCEPT
                         !.subTasks = [i \in 1..n |-> [text |-> <<>>,
                                                       completed |-> FALSE,
                                                       studyLogs |-> <<[duration |-> 45 * i]>>]]],
                     0 - 1, FALSE)

-----------------------------------------------------------------------------
(* TaskManager.tsx: values *)

\* A Date is <<day, ms>>: the calendar day counted from the epoch and the
\* millisecond within it. The local time zone is taken to be UTC, so the UTC
\* midnight that new Date("YYYY-MM-DD") yields is the start of local day d.

\* 23:59:59.999 as a millisecond of the day: setHours(23, 59, 59, 999)
EndOfDayMs == 86399999

Digits == <<"0", "1", "2", "3", "4", "5", "6", "7", "8", "9">>

isDigit(c) == \E d \in 1..Len(Digits) : Digits[d] = c

digitValue(c) == (CHOOSE d \in 1..Len(Digits) : Digits[d] = c) - 1

\* the value of the longest prefix of digits, given the value read so far
RECURSIVE digitsValue(_, _)
digitsValue(s, acc) ==
    IF s = <<>> \/ ~isDigit(Head(s)) THEN acc
    ELSE digitsValue(Tail(s), 10 * acc + digitValue(Head(s)))

\* parseInt(text, 10): <<>> is NaN, <<n>> the number. Leading white space is
\* skipped, a sign is read, then the digits up to the first other character.
RECURSIVE parseInt(_)
parseInt(s) ==
    IF s = <<>> THEN <<>>
    ELSE IF Head(s) = " " THEN parseInt(Tail(s))
    ELSE IF Head(s) \in {"-", "+"}
         THEN IF Tail(s) = <<>> \/ ~isDigit(Head(Tail(s))) THEN <<>>
              ELSE IF Head(s) = "-" THEN <<0 - digitsValue(Tail(s), 0)>>
                                    ELSE <<digitsValue(Tail(s), 0)>>
    ELSE IF isDigit(Head(s)) THEN <<digitsValue(s, 0)>>
    ELSE <<>>

\* new Date(), read while the clock shows t
dateOfClock(t) == <<0, t>>

\* new Date(formData.targetDate) for the value <<d>> of a date input
dateOfInput(str) == <<str[1], 0>>

\* date.toISOString().split('T')[0], as the value of a date input
isoDay(date) == <<date[1]>>

\* date.setDate(date.getDate() + days)
addDays(date, days) == <<date[1] + days, date[2]>>

\* date.setHours(23, 59, 59, 999)
endOfDay(date) == <<date[1], EndOfDayMs>>

emptyForm == [title |-> "", targetDate |-> <<>>, category |-> "", priority |-> "high"]

defaultNumberOfDays == <<"3", "0">>

-----------------------------------------------------------------------------
(* handleSubmit *)

\* the first validation: a date must be entered in 'date' mode
dateMissing(type, form) == type = "date" /\ form.targetDate = <<>>

\* the second validation: !days || days <= 0 in 'days' mode
daysInvalid(type, text) ==
    /\ type = "days"
    /\ LET days == parseInt(text)
       IN  days = <<>> \/ days[1] = 0 \/ days[1] <= 0

\* the early returns of handleSubmit
submitRejected(type, text, form) == dateMissing(type, form) \/ daysInvalid(type, text)

\* targetDateValue after setHours
targetDateValue(type, text, form, t) ==
    IF type = "date" THEN endOfDay(dateOfInput(form.targetDate))
                     ELSE endOfDay(addDays(dateOfClock(t), parseInt(text)[1]))

\* editingTask?.id || Date.now().toString()
idOf(editing, t) == IF editing # <<>> THEN editing[1].id ELSE t

\* editingTask?.startDate || new Date()
startDateOf(editing, t) == IF editing # <<>> THEN editing[1].startDate ELSE dateOfClock(t)

\* formData.category || 'General'
categoryOf(form) == IF form.category # "" THEN form.category ELSE "General"

taskData(editing, type, text, form, t) ==
    [id         |-> idOf(editing, t),
     title      |-> form.title,
     targetDate |-> targetDateValue(type, text, form, t),
     startDate  |-> startDateOf(editing, t),
     category   |-> categoryOf(form),
     priority   |-> form.priority]

\* editingTask ? tasks.map(...) : [...tasks, taskData]
submittedTasks(list, editing, data) ==
    IF editing # <<>>
    THEN [k \in 1..Len(list) |-> IF list[k].id = editing[1].id THEN data ELSE list[k]]
    ELSE Append(list, data)

\* a submit that never calls onSelectTask
selectionAfterSubmitKept(selected, editing, data) == selected

\* the selection the owner holds after a successful submit:
\* if (!editingTask) onSelectTask(taskData.id)
selectionAfterSubmit(selected, editing, data) ==
    IF editing = <<>> THEN <<data.id>> ELSE selected

HandleSubmit ==
    /\ isAddDialogOpen
    /\ event' = <<"submit">>
    /\ IF submitRejected(deadlineType, numberOfDays, formData)
       THEN /\ callbacks' = <<>>
            /\ UNCHANGED <<tasks, selectedTaskId, isAddDialogOpen, editingTask,
                           deadlineType, numberOfDays, formData, now>>
       ELSE LET data == taskData(editingTask, deadlineType, numberOfDays, formData, now)
            IN  /\ editingTask = <<>> => Len(tasks) < MaxTasks
                /\ tasks' = submittedTasks(tasks, editingTask, data)
                /\ selectedTaskId' = selectionAfterSubmit(selectedTaskId, editingTask, data)
                /\ callbacks' = IF editingTask = <<>> THEN <<"onTasksChange", "onSelectTask">>
                                                      ELSE <<"onTasksChange">>
                /\ formData' = emptyForm
                /\ numberOfDays' = defaultNumberOfDays
                /\ deadlineType' = "date"
                /\ isAddDialogOpen' = FALSE
                /\ editingTask' = <<>>
                /\ UNCHANGED now
    /\ UNCHANGED <<cardVars, timeVars>>

-----------------------------------------------------------------------------
(* handleEdit, handleDelete and the other controls *)

HandleEdit ==
    \E k \in 1..Len(tasks) :
        /\ editingTask' = <<tasks[k]>>
        /\ deadlineType' = "date"
        /\ formData' = [title      |-> tasks[k].title,
                        targetDate |-> isoDay(tasks[k].targetDate),
                        category   |-> tasks[k].category,
                        priority   |-> tasks[k].priority]
        /\ isAddDialogOpen' = TRUE
        /\ event' = <<"edit">>
        /\ callbacks' = <<>>
        /\ UNCHANGED <<tasks, selectedTaskId, numberOfDays, now>>
        /\ UNCHANGED <<cardVars, timeVars>>

\* tasks.filter(task => task.id !== taskId)
withoutId(list, taskId) == SelectSeq(list, LAMBDA t : t.id # taskId)

\* a delete that never calls onSelectTask
selectionAfterDeleteKept(selected, taskId, remaining) == selected

\* the selection the owner holds after handleDelete's calls of onSelectTask
selectionAfterDelete(selected, taskId, remaining) ==
    IF selected = <<taskId>> /\ Len(remaining) > 0 THEN <<remaining[1].id>>
    ELSE IF Len(remaining) = 0 THEN <<>>
    ELSE selected

HandleDelete ==
    \E k \in 1..Len(tasks) :
        LET taskId == tasks[k].id
            remaining == withoutId(tasks, taskId)
        IN  /\ tasks' = remaining
            /\ selectedTaskId' = selectionAfterDelete(selectedTaskId, taskId, remaining)
            /\ callbacks' = IF (selectedTaskId = <<taskId>> /\ Len(remaining) > 0) \/ Len(remaining) = 0
                            THEN <<"onTasksChange", "onSelectTask">>
                            ELSE <<"onTasksChange">>
            /\ event' = <<"delete", taskId>>
            /\ UNCHANGED <<isAddDialogOpen, editingTask, deadlineType, numberOfDays, formData, now>>
            /\ UNCHANGED <<cardVars, timeVars>>

\* onClick of a mission card
SelectCard ==
    \E k \in 1..Len(tasks) :
        /\ selectedTaskId' = <<tasks[k].id>>
        /\ callbacks' = <<"onSelectTask">>
        /\ event' = <<"select">>
        /\ UNCHANGED <<tasks, isAddDialogOpen, editingTask, deadlineType, numberOfDays, formData, now>>
        /\ UNCHANGED <<cardVars, timeVars>>

\* the New button: its onClick resets the form, the dialog trigger opens the dialog
OpenNew ==
    /\ ~isAddDialogOpen
    /\ editingTask' = <<>>
    /\ formData' = emptyForm
    /\ deadlineType' = "date"
    /\ numberOfDays' = defaultNumberOfDays
    /\ isAddDialogOpen' = TRUE
    /\ event' = <<"new">>
    /\ callbacks' = <<>>
    /\ UNCHANGED <<tasks, selectedTaskId, now>>
    /\ UNCHANGED <<cardVars, timeVars>>

\* the Cancel button
Cancel ==
    /\ isAddDialogOpen
    /\ isAddDialogOpen' = FALSE
    /\ event' = <<"cancel">>
    /\ callbacks' = <<>>
    /\ UNCHANGED <<tasks, selectedTaskId, editingTask, deadlineType, numberOfDays, formData, now>>
    /\ UNCHANGED <<cardVars, timeVars>>

\* what a user enters in the dialog before pressing a button
FormInputs ==
    { [deadlineType |-> "date", numberOfDays |-> defaultNumberOfDays,
       title |-> "Run", targetDate |-> <<2>>, category |-> "Fit", priority |-> "low"],
      [deadlineType |-> "days", numberOfDays |-> defaultNumberOfDays,
       title |-> "Run", targetDate |-> <<>>, category |-> "", priority |-> "high"],
      [deadlineType |-> "date", numberOfDays |-> defaultNumberOfDays,
       title |-> "Run", targetDate |-> <<>>, category |-> "", priority |-> "high"],
      [deadlineType |-> "days", numberOfDays |-> <<"0">>,
       title |-> "Run", targetDate |-> <<>>, category |-> "", priority |-> "high"],
      [deadlineType |-> "days", numberOfDays |-> <<"-", "1">>,
       title |-> "Run", targetDate |-> <<>>, category |-> "", priority |-> "high"],
      [deadlineType |-> "days", numberOfDays |-> <<"x">>,
       title |-> "Run", targetDate |-> <<>>, category |-> "", priority |-> "high"],
      [deadlineType |-> "date", numberOfDays |-> defaultNumberOfDays,
       title |-> "", targetDate |-> <<2>>, category |-> "", priority |-> "high"] }

\* the onChange handlers of the dialog's controls, each storing its control's value
FillForm ==
    \E req \in FormInputs :
        /\ isAddDialogOpen
        /\ formData' = [title |-> req.title, targetDate |-> req.targetDate,
                        category |-> req.category, priority |-> req.priority]
        /\ deadlineType' = req.deadlineType
        /\ numberOfDays' = req.numberOfDays
        /\ event' = <<"input">>
        /\ callbacks' = <<>>
        /\ UNCHANGED <<tasks, selectedTaskId, isAddDialogOpen, editingTask, now>>
        /\ UNCHANGED <<cardVars, timeVars>>

\* time passes
Tick ==
    /\ now < MaxClock
    /\ now' = now + 1
    /\ UNCHANGED <<tasks, selectedTaskId, isAddDialogOpen, editingTask, deadlineType,
                   numberOfDays, formData, event, callbacks>>
    /\ UNCHANGED <<cardVars, timeVars>>

-----------------------------------------------------------------------------
(* getTimeLeft *)

\* 1000 * 60 * 60 * 24
DayMs == 86400000

\* Math.floor(a / b) in place of Math.ceil
floorDiv(a, b) == a \div b

\* Math.ceil(a / b) for b > 0
ceilDiv(a, b) == 0 - ((0 - a) \div b)

\* Math.abs
abs(n) == IF n < 0 THEN 0 - n ELSE n

\* the label for a day count
labelOf(days) ==
    IF days > 1 THEN ToString(days) \o " days left"
    ELSE IF days = 1 THEN "1 day left"
    ELSE IF days = 0 THEN "Today!"
    ELSE ToString(abs(days)) \o " days overdue"

\* getTimeLeft(targetDate), with the clock reading `t` of its new Date()
getTimeLeft(targetDate, t) ==
    LET difference == targetDate - t
        days == ceilDiv(difference, DayMs)
    IN  labelOf(days)

\* times of day: 00:00:00.000, 00:00:00.001, 12:00:00.000, 23:59:59.000, 23:59:59.999
TimesOfDay == {0, 1, 43200000, 86399000, EndOfDayMs}

\* the instants of the model, in ms from 2024-01-10T00:00:00
Instants == {d * DayMs + o : d \in (0 - MaxDays)..MaxDays, o \in TimesOfDay}

\* a card is rendered: getTimeLeft(task.targetDate)
GetTimeLeft ==
    \E targetDate \in Instants :
        /\ timeCall' = <<targetDate, clockMs, getTimeLeft(targetDate, clockMs)>>
        /\ UNCHANGED <<clockMs, cardVars, mgrVars>>

\* time passes
ClockAdvance ==
    \E t \in Instants :
        /\ t > clockMs
        /\ clockMs' = t
        /\ UNCHANGED <<timeCall, cardVars, mgrVars>>

-----------------------------------------------------------------------------
(* Initial states and specifications *)

\* a mission the owner loaded from elsewhere, its id a timestamp of another clock
externalTask(id) ==
    [id |-> id, title |-> "Old", targetDate |-> <<1, EndOfDayMs>>, startDate |-> <<0, 0>>,
     category |-> "General", priority |-> "medium"]

mgrIdle ==
    /\ isAddDialogOpen = FALSE
    /\ editingTask = <<>>
    /\ deadlineType = "date"
    /\ numberOfDays = defaultNumberOfDays
    /\ formData = emptyForm
    /\ event = <<"none">>
    /\ callbacks = <<>>

timeIdle ==
    /\ clockMs = 0
    /\ timeCall = <<>>

cardIdle ==
    /\ call = <<>>
    /\ wasPreviouslyComplete = FALSE
    /\ updatedTasks = <<>>
    /\ justCompletedTask = <<>>

InitCard ==
    /\ \E strs \in [Days -> Strings] :
          /\ SumLen(strs) <= MaxTotalLen
          /\ \E stored \in BOOLEAN :
                dailyTasks = [d \in Days |->
                                 IF stored THEN storedTask(d, strs[d])
                                           ELSE freshTask(d, strs[d])]
    /\ cardIdle
    /\ tasks = <<>> /\ selectedTaskId = <<>> /\ now = 1
    /\ mgrIdle
    /\ timeIdle

InitMgr ==
    /\ dailyTasks = <<>>
    /\ cardIdle
    /\ now = 1
    /\ \/ tasks = <<>> /\ selectedTaskId = <<>>
       \/ \E id \in 1..MaxClock :
             /\ tasks = <<externalTask(id)>>
             /\ selectedTaskId \in {<<>>, <<id>>}
    /\ mgrIdle
    /\ timeIdle

InitTime ==
    /\ dailyTasks = <<>>
    /\ cardIdle
    /\ tasks = <<>> /\ selectedTaskId = <<>> /\ now = 1
    /\ mgrIdle
    /\ clockMs \in Instants
    /\ timeCall = <<>>

NextCard == HandlerCall \/ CheckboxClick

NextMgr ==
    \/ OpenNew
    \/ FillForm
    \/ HandleSubmit
    \/ Cancel
    \/ HandleEdit
    \/ HandleDelete
    \/ SelectCard
    \/ Tick

SpecCard == InitCard /\ [][NextCard]_vars

SpecCardUI == InitCard /\ [][CheckboxClick]_vars

SpecMgr == InitMgr /\ [][NextMgr]_vars

NextTime == GetTimeLeft \/ ClockAdvance

SpecTime == InitTime /\ [][NextTime]_vars

-----------------------------------------------------------------------------
(* Properties of handleSubTaskCompletion *)

\* the task(s) of the roadmap the last call targeted
targeted(k) == call # <<>> /\ dailyTasks[k].day = call[1]

\* every element of task.subTasks has completed = true
everySubTaskCompleted(task) == \A i \in DOMAIN task.subTasks : task.subTasks[i].completed

\* C1 as stated: after a call, for ALL daily tasks of the list, including the
\* ones the call did not target, completed is true iff every element of
\* subTasks has completed = true.
C1_AggregationAllTasks ==
    call # <<>> =>
        \A k \in DOMAIN dailyTasks :
            dailyTasks[k].completed <=> everySubTaskCompleted(dailyTasks[k])

\* C1 amended: after a call, every task the call targeted has its subTasks
\* built (one per segment of the split), every task whose subTasks are built
\* has completed true iff every element of subTasks is completed, and a task
\* no call has targeted yet keeps no subTasks and completed = false.
C1_AggregationBuiltTasks ==
    \A k \in DOMAIN dailyTasks :
        LET t == dailyTasks[k]
        IN  /\ targeted(k) => Len(t.subTasks) = Len(split(t.task))
            /\ t.subTasks # <<>> => (t.completed <=> everySubTaskCompleted(t))
            /\ t.subTasks = <<>> => ~t.completed

\* a call completed a task of several sub-tasks while another task is still untouched
C1_Witness ==
    \E k, g \in DOMAIN dailyTasks :
        /\ targeted(k)
        /\ Len(dailyTasks[k].subTasks) >= 2
        /\ dailyTasks[k].completed
        /\ dailyTasks[g].subTasks = <<>>

\* C2: the signal handed to onRoadmapUpdate is non-null exactly on the calls
\* where the targeted day's completed flag goes from false to true; it then
\* carries the updated task; it is null on every call made while the task is
\* already complete and on every call that leaves the task incomplete.
C2_OneShotSignal ==
    [][ call' # <<>> =>
          LET rose == {k \in DOMAIN dailyTasks :
                          /\ dailyTasks[k].day = call'[1]
                          /\ ~dailyTasks[k].completed
                          /\ dailyTasks'[k].completed}
          IN  /\ (justCompletedTask' # <<>>) <=> (rose # {})
              /\ justCompletedTask' # <<>> =>
                    \E k \in rose : justCompletedTask'[1] = dailyTasks'[k]
              /\ wasPreviouslyComplete' => justCompletedTask' = <<>>
              /\ (\A k \in DOMAIN dailyTasks :
                      dailyTasks[k].day = call'[1] => ~dailyTasks'[k].completed)
                    => justCompletedTask' = <<>>
      ]_vars

\* a call on a task that was already complete and stays complete: no signal
C2_Witness ==
    /\ wasPreviouslyComplete
    /\ justCompletedTask = <<>>
    /\ \E k \in DOMAIN dailyTasks : targeted(k) /\ dailyTasks[k].completed

\* the completed flag and study logs stored at a 0-based position, absent ones
\* read as false and as no logs
flagAt(task, j) == j + 1 \in DOMAIN task.subTasks /\ task.subTasks[j + 1].completed
logsAt(task, j) == IF j + 1 \in DOMAIN task.subTasks THEN task.subTasks[j + 1].studyLogs ELSE <<>>

\* C8: a call leaves every task of another day unchanged; in the targeted task
\* the completed flag of every position other than subTaskIndex and the study
\* logs of every position are unchanged; when the day matches no task the list
\* handed to onRoadmapUpdate equals the current list and the signal is null.
C8_CompletionFrame ==
    [][ call' # <<>> =>
          LET day == call'[1]
              subTaskIndex == call'[2]
          IN  /\ DOMAIN dailyTasks' = DOMAIN dailyTasks
              /\ updatedTasks' = dailyTasks'
              /\ \A k \in DOMAIN dailyTasks :
                    IF dailyTasks[k].day # day
                    THEN dailyTasks'[k] = dailyTasks[k]
                    ELSE /\ dailyTasks'[k].day = dailyTasks[k].day
                         /\ dailyTasks'[k].task = dailyTasks[k].task
                         /\ \A j \in 0..MaxTotalLen :
                               /\ j # subTaskIndex =>
                                     flagAt(dailyTasks'[k], j) = flagAt(dailyTasks[k], j)
                               /\ logsAt(dailyTasks'[k], j) = logsAt(dailyTasks[k], j)
              /\ (\A k \in DOMAIN dailyTasks : dailyTasks[k].day # day) =>
                    /\ updatedTasks' = dailyTasks
                    /\ justCompletedTask' = <<>>
      ]_vars

\* a call set one position of a task whose other position was completed
\* before and carries a study log
C8_Witness ==
    \E k \in DOMAIN dailyTasks :
        /\ targeted(k)
        /\ \E j \in DOMAIN dailyTasks[k].subTasks :
              /\ j - 1 # call[2]
              /\ call[2] + 1 \in DOMAIN dailyTasks[k].subTasks
              /\ dailyTasks[k].subTasks[j].completed
              /\ ~dailyTasks[k].subTasks[call[2] + 1].completed
              /\ dailyTasks[k].subTasks[j].studyLogs # <<>>

\* C10 as stated, in the form a finite run refutes: once every checkbox
\* shown for a day is checked, that day's completed flag is true.
C10_DisplayedAllCheckedCompletes ==
    \A k \in DOMAIN dailyTasks :
        LET t == dailyTasks[k]
            shown == Len(displayedSubTasks(t))
        IN  (shown > 0 /\ \A index \in 0..(shown - 1) : checkboxChecked(t, index))
                => t.completed

-----------------------------------------------------------------------------
(* Properties of TaskManager *)

\* the ids of the missions of a list
idsOf(list) == {list[k].id : k \in DOMAIN list}

submitAccepted == event'[1] = "submit" /\ isAddDialogOpen /\ ~isAddDialogOpen'

\* the target date a form asks for: the last instant of the entered day, or of
\* the day that lies the entered number of days after today (day 0)
enteredTargetDate ==
    IF deadlineType = "date" THEN <<formData.targetDate[1], EndOfDayMs>>
                             ELSE <<parseInt(numberOfDays)[1], EndOfDayMs>>

\* C4 as stated: a successful submit made while editing replaces the mission
\* whose id equals the edited id with a record of the same id and the same
\* startDate and the newly entered title, targetDate, category (General when
\* left blank) and priority; every other mission is unchanged, length and
\* order of the list are unchanged, and the selection is not changed.
C4_EditLaw ==
    [][ submitAccepted /\ editingTask # <<>> =>
          /\ Len(tasks') = Len(tasks)
          /\ selectedTaskId' = selectedTaskId
          /\ \A k \in DOMAIN tasks :
                IF tasks[k].id # editingTask[1].id
                THEN tasks'[k] = tasks[k]
                ELSE /\ tasks'[k].id = tasks[k].id
                     /\ tasks'[k].startDate = tasks[k].startDate
                     /\ tasks'[k].title = formData.title
                     /\ tasks'[k].targetDate = enteredTargetDate
                     /\ tasks'[k].category =
                           (IF formData.category = "" THEN "General" ELSE formData.category)
                     /\ tasks'[k].priority = formData.priority
      ]_vars

\* the input of a form is invalid: no date in 'date' mode, a day count that is
\* not a number or is <= 0 in 'days' mode, or an empty title
formInvalid ==
    \/ deadlineType = "date" /\ formData.targetDate = <<>>
    \/ deadlineType = "days" /\ (parseInt(numberOfDays) = <<>> \/ parseInt(numberOfDays)[1] <= 0)
    \/ formData.title = ""

\* C5 as stated: a submit whose input is invalid calls neither onTasksChange
\* nor onSelectTask, leaves the mission list and the selection as they were,
\* and leaves the dialog open with editingTask and the form fields unchanged.
C5_RejectionLeavesState ==
    [][ event'[1] = "submit" /\ formInvalid =>
          /\ callbacks' = <<>>
          /\ UNCHANGED <<tasks, selectedTaskId, isAddDialogOpen, editingTask,
                         deadlineType, numberOfDays, formData>>
      ]_vars

\* C6 as stated: no two missions of the list share an id.
C6_IdsUnique ==
    \A i, j \in DOMAIN tasks : i # j => tasks[i].id # tasks[j].id

\* C9: selectedTaskId is null or the id of a mission of the list, and right
\* after a successful create the mission appended last is the selected one.
C9_SelectionValid ==
    /\ selectedTaskId = <<>> \/ selectedTaskId[1] \in idsOf(tasks)
    /\ (event = <<"submit">> /\ callbacks = <<"onTasksChange", "onSelectTask">>)
          => /\ Len(tasks) > 0
             /\ selectedTaskId = <<tasks[Len(tasks)].id>>

\* a create on top of an existing mission: the appended mission is selected
C9_Witness ==
    /\ event = <<"submit">>
    /\ callbacks = <<"onTasksChange", "onSelectTask">>
    /\ Len(tasks) = 2
    /\ tasks[1].id # tasks[2].id
    /\ selectedTaskId = <<tasks[2].id>>

-----------------------------------------------------------------------------
(* Properties of getTimeLeft *)

\* 2024-01-12T23:59:59, 2024-01-10T12:00:00 and 2024-01-08T00:00:00
Target_Jan12_235959 == 2 * DayMs + 86399000
Target_Jan10_120000 == 12 * 60 * 60 * 1000
Target_Jan08_000000 == 0 - 2 * DayMs

\* the label the rule gives where `days` is the least count of whole days
\* that covers the difference
ruleHolds(targetDate, t, result) ==
    \E days \in (0 - 2 * MaxDays - 1)..(2 * MaxDays + 1) :
        /\ (days - 1) * DayMs < targetDate - t
        /\ targetDate - t <= days * DayMs
        /\ days > 1 => result = ToString(days) \o " days left"
        /\ days = 1 => result = "1 day left"
        /\ days = 0 => result = "Today!"
        /\ days < 0 => result = ToString(0 - days) \o " days overdue"

\* C7 as stated: with now = 2024-01-10T00:00:00 the three targets give
\* "2 days left", "Today!" and "2 days overdue", and the rule holds.
C7_TimeLeftAsStated ==
    timeCall # <<>> =>
        /\ ruleHolds(timeCall[1], timeCall[2], timeCall[3])
        /\ timeCall[2] = 0 =>
              /\ timeCall[1] = Target_Jan12_235959 => timeCall[3] = "2 days left"
              /\ timeCall[1] = Target_Jan10_120000 => timeCall[3] = "Today!"
              /\ timeCall[1] = Target_Jan08_000000 => timeCall[3] = "2 days overdue"

\* C7 amended: with days = ceil((targetDate - now) / 86400000), days > 1 gives
\* "{days} days left", 1 gives "1 day left", 0 gives "Today!" and days < 0
\* gives "{abs(days)} days overdue"; with now = 2024-01-10T00:00:00 the three
\* targets give "3 days left", "1 day left" and "2 days overdue".
C7_TimeLeftLabels ==
    timeCall # <<>> =>
        /\ ruleHolds(timeCall[1], timeCall[2], timeCall[3])
        /\ timeCall[2] = 0 =>
              /\ timeCall[1] = Target_Jan12_235959 => timeCall[3] = "3 days left"
              /\ timeCall[1] = Target_Jan10_120000 => timeCall[3] = "1 day left"
              /\ timeCall[1] = Target_Jan08_000000 => timeCall[3] = "2 days overdue"

\* the label of a deadline later on the current day has been computed
C7_Witness ==
    /\ timeCall # <<>>
    /\ timeCall[2] = 0
    /\ timeCall[1] = Target_Jan10_120000
    /\ timeCall[3] = "1 day left"

====
